---- MODULE Spec2Model ----
(***************************************************************************)
(* The DEFLATE decompressor of src/src/deflate/mod.rs as a state machine.  *)
(* One Decompressor (header, state, huffman_codes, output_buf) is driven   *)
(* by repeated calls of decompress over one bit source.  Every iteration   *)
(* of the loop in decompress is one action: the arm of the match on        *)
(* self.state that the iteration takes.                                    *)
(*                                                                         *)
(* Option<T> is a sequence: <<>> is None, <<v>> is Some(v).                *)
(* A Result is a record [ok, val, in_stream]: val is the Ok value or the   *)
(* error, in_stream the bit source after the reads of the call.            *)
(***************************************************************************)
EXTENDS Integers, Sequences, FiniteSets, TLC

VARIABLES
    in_stream,      \* the BitReader: [bits, pos, eof], bits the unread ones
    header,         \* Decompressor.header: [bfinal, btype], both Option
    state,          \* Decompressor.state: a State variant
    huffman_codes,  \* Decompressor.huffman_codes: Option<Tree>
    output_buf,     \* Decompressor.output_buf: VecDeque<u8>, front first
    buf,            \* the local buf of the call of decompress in progress
    pc,             \* "idle" | "running" | "aborted": the caller's position
    outcome,        \* how the last call ended
    received        \* every byte returned to the caller so far, in order

vars == <<in_stream, header, state, huffman_codes, output_buf, buf, pc,
          outcome, received>>

(***************************************************************************)
(* Bounds of the model.                                                    *)
(***************************************************************************)
\* Code words of whole symbols in an input, after a fixed-Huffman header.
MaxSymbols == 2
\* Bits of a truncated code word that end such an input.
MaxTailBits == 2
\* Length of the inputs given bit by bit (every bit sequence up to it).
MaxRawBits == 4
\* Length of the bit sequences given after a fixed-Huffman header.
MaxCodeBits == 10

\* The capacity output_buf is constructed with.
WINDOW_SIZE == 32768

None == <<>>
Some(v) == <<v>>

\* s back to front.
Reverse(s) == LET n == Len(s) IN [i \in 1..n |-> s[n + 1 - i]]

RECURSIVE BitSeqs(_)
\* Every bit sequence of length n.
BitSeqs(n) ==
    IF n = 0 THEN {<<>>}
    ELSE {Append(s, b) : s \in BitSeqs(n - 1), b \in BOOLEAN}

BitSeqsUpTo(n) == UNION {BitSeqs(k) : k \in 0..n}

(***************************************************************************)
(* The bit source (crate::bitreader::BitReader).                           *)
(***************************************************************************)
\* A reader over a forward-only stream: bits are the bits not yet read,
\* pos counts the bits read, eof is set by a read that found none left.
NewBitReader(bits) == [bits |-> bits, pos |-> 0, eof |-> FALSE]

\* read_bit: the next bit of the stream, or an error when none is left.
read_bit(r) ==
    IF r.bits # <<>>
    THEN [ok |-> TRUE, val |-> Head(r.bits),
          in_stream |-> [bits |-> Tail(r.bits), pos |-> r.pos + 1,
                         eof |-> r.eof]]
    ELSE [ok |-> FALSE, val |-> FALSE,
          in_stream |-> [r EXCEPT !.eof = TRUE]]

RECURSIVE read_n_bits_from(_, _, _)
read_n_bits_from(r, n, acc) ==
    IF n = 0 THEN [ok |-> TRUE, val |-> acc, in_stream |-> r]
    ELSE LET b == read_bit(r) IN
         IF b.ok THEN read_n_bits_from(b.in_stream, n - 1, Append(acc, b.val))
         ELSE [ok |-> FALSE, val |-> acc, in_stream |-> b.in_stream]

\* read_n_bits: the next n bits in the order read, or an error.
read_n_bits(r, n) == read_n_bits_from(r, n, <<>>)

(***************************************************************************)
(* The prefix tree (crate::huffman).  A tree is the set of the pairs       *)
(* <<code word still to be read, symbol>> below a node.                    *)
(***************************************************************************)
\* Number of symbols with code length l (none counts for length 0).
BlCount(lengths, l) ==
    IF l = 0 THEN 0
    ELSE Cardinality({i \in DOMAIN lengths : lengths[i] = l})

RECURSIVE NextCode(_, _)
\* The smallest code of length l of the canonical code (RFC 1951, 3.2.2).
NextCode(lengths, l) ==
    IF l = 0 THEN 0
    ELSE 2 * (NextCode(lengths, l - 1) + BlCount(lengths, l - 1))

\* The code of symbol n: codes of one length go up with the symbol.
CodeOf(lengths, n) ==
    NextCode(lengths, lengths[n + 1])
      + Cardinality({m \in 0..(n - 1) : lengths[m + 1] = lengths[n + 1]})

RECURSIVE ToBits(_, _)
\* value in width bits, most significant bit first.
ToBits(value, width) ==
    IF width = 0 THEN <<>>
    ELSE Append(ToBits(value \div 2, width - 1), value % 2 = 1)

codes_from_lengths(lengths) ==
    {<<ToBits(CodeOf(lengths, n), lengths[n + 1]), n>> :
        n \in {m \in 0..(Len(lengths) - 1) : lengths[m + 1] # 0}}

\* Tree::lookup: the child of a node along bit.
lookup(tree, bit) ==
    LET sub == {<<Tail(e[1]), e[2]>> :
                  e \in {x \in tree : x[1] # <<>> /\ Head(x[1]) = bit}}
    IN  IF sub = {} THEN [tag |-> "None", symbol |-> 0, tree |-> {}]
        ELSE IF \E e \in sub : e[1] = <<>>
        THEN [tag |-> "Leaf", symbol |-> (CHOOSE e \in sub : e[1] = <<>>)[2],
              tree |-> {}]
        ELSE [tag |-> "Inner", symbol |-> 0, tree |-> sub]

(***************************************************************************)
(* The variants of State, BType and DecompressorError.                     *)
(***************************************************************************)
NoCompression == "NoCompression"
CompressedWithFixedHuffmanCodes == "CompressedWithFixedHuffmanCodes"
CompressedWithDynamicHuffmanCodes == "CompressedWithDynamicHuffmanCodes"
BType == {NoCompression, CompressedWithFixedHuffmanCodes,
          CompressedWithDynamicHuffmanCodes}

StateHeaderBegin == [tag |-> "HeaderBegin"]
StateBFinal(bfinal) == [tag |-> "BFinal", bfinal |-> bfinal]
StateBType(btype) == [tag |-> "BType", btype |-> btype]
StateHandlingHuffmanCodes(btype) == [tag |-> "HandlingHuffmanCodes", btype |-> btype]
StateHuffmanCodes(codes) == [tag |-> "HuffmanCodes", codes |-> codes]
StateSymbol(symbol) == [tag |-> "Symbol", symbol |-> symbol]

UnexpectedEOF == "UnexpectedEOF"
BlockTypeReserved == "BlockTypeReserved"
DecompressorError == {UnexpectedEOF, BlockTypeReserved}

Ok(v, r) == [ok |-> TRUE, val |-> v, in_stream |-> r]
Err(e, r) == [ok |-> FALSE, val |-> e, in_stream |-> r]

(***************************************************************************)
(* The steps of the decoder.                                               *)
(***************************************************************************)
HeaderNew == [bfinal |-> None, btype |-> None]

\* parse_bfinal reporting an exhausted source as the other error kind.
parse_bfinal_wrong_error(r) ==
    LET b == read_bit(r) IN
    IF b.ok THEN Ok(StateBFinal(b.val), b.in_stream)
    ELSE Err(BlockTypeReserved, b.in_stream)

parse_bfinal(r) ==
    LET b == read_bit(r) IN
    IF b.ok THEN Ok(StateBFinal(b.val), b.in_stream)
    ELSE Err(UnexpectedEOF, b.in_stream)

\* parse_btype matching on (btype[0], btype[1]): the two bits swapped.
parse_btype_swapped(r) ==
    LET b == read_n_bits(r, 2) IN
    IF ~b.ok THEN Err(UnexpectedEOF, b.in_stream)
    ELSE LET btype == b.val IN
         CASE btype[1] = FALSE /\ btype[2] = FALSE ->
                Ok(StateBType(NoCompression), b.in_stream)
           [] btype[1] = FALSE /\ btype[2] = TRUE ->
                Ok(StateBType(CompressedWithFixedHuffmanCodes), b.in_stream)
           [] btype[1] = TRUE /\ btype[2] = FALSE ->
                Ok(StateBType(CompressedWithDynamicHuffmanCodes), b.in_stream)
           [] btype[1] = TRUE /\ btype[2] = TRUE ->
                Err(BlockTypeReserved, b.in_stream)

\* parse_btype with the reserved pattern falling into the stored arm.
parse_btype_reserved_accepted(r) ==
    LET b == read_n_bits(r, 2) IN
    IF ~b.ok THEN Err(UnexpectedEOF, b.in_stream)
    ELSE LET btype == b.val IN
         CASE btype[2] = FALSE /\ btype[1] = TRUE ->
                Ok(StateBType(CompressedWithFixedHuffmanCodes), b.in_stream)
           [] btype[2] = TRUE /\ btype[1] = FALSE ->
                Ok(StateBType(CompressedWithDynamicHuffmanCodes), b.in_stream)
           [] OTHER ->
                Ok(StateBType(NoCompression), b.in_stream)

parse_btype(r) ==
    LET b == read_n_bits(r, 2) IN
    IF ~b.ok THEN Err(UnexpectedEOF, b.in_stream)
    ELSE LET btype == b.val IN
         CASE btype[2] = FALSE /\ btype[1] = FALSE ->
                Ok(StateBType(NoCompression), b.in_stream)
           [] btype[2] = FALSE /\ btype[1] = TRUE ->
                Ok(StateBType(CompressedWithFixedHuffmanCodes), b.in_stream)
           [] btype[2] = TRUE /\ btype[1] = FALSE ->
                Ok(StateBType(CompressedWithDynamicHuffmanCodes), b.in_stream)
           [] btype[2] = TRUE /\ btype[1] = TRUE ->
                Err(BlockTypeReserved, b.in_stream)

\* [vec!(8; 144), vec!(9; 112), vec!(7; 24), vec!(8; 8)].concat()
FixedLengths ==
    [i \in 1..144 |-> 8] \o [i \in 1..112 |-> 9] \o [i \in 1..24 |-> 7]
      \o [i \in 1..8 |-> 8]

\* The tree of the fixed code, built once.
FixedTree == codes_from_lengths(FixedLengths)

create_fixed_huffman_codes == [ok |-> TRUE, val |-> StateHuffmanCodes(FixedTree)]

RECURSIVE parse_next_symbol_reads_on(_, _)
\* parse_next_symbol reading one bit more once it has reached a leaf.
parse_next_symbol_reads_on(r, tree) ==
    LET b == read_bit(r) IN
    IF ~b.ok THEN Err(UnexpectedEOF, b.in_stream)
    ELSE LET l == lookup(tree, b.val) IN
         CASE l.tag = "Leaf" ->
                Ok(StateSymbol(l.symbol), read_bit(b.in_stream).in_stream)
           [] l.tag = "Inner" -> parse_next_symbol_reads_on(b.in_stream, l.tree)
           [] l.tag = "None" -> Err("unreachable", b.in_stream)

RECURSIVE parse_next_symbol(_, _)
\* The loop of parse_next_symbol, entered with the node reached so far.
parse_next_symbol(r, tree) ==
    LET b == read_bit(r) IN
    IF ~b.ok THEN Err(UnexpectedEOF, b.in_stream)
    ELSE LET l == lookup(tree, b.val) IN
         CASE l.tag = "Leaf" -> Ok(StateSymbol(l.symbol), b.in_stream)
           [] l.tag = "Inner" -> parse_next_symbol(b.in_stream, l.tree)
           [] l.tag = "None" -> Err("unreachable", b.in_stream)

(***************************************************************************)
(* The inputs: after a fixed-Huffman header, the code words of up to       *)
(* MaxSymbols symbols and a truncated code word of up to MaxTailBits bits; *)
(* and every bit sequence of up to MaxRawBits bits.  The fixed code is     *)
(* complete, so every bit sequence is a run of code words and a truncated  *)
(* one; the symbols are taken at the edges of the ranges of the code.      *)
(* With them, stored blocks and dynamic blocks with their fields.          *)
(***************************************************************************)
SampleSymbols == {0, 65, 143, 144, 255, 256, 257, 285, 286}

CodeWord(s) == (CHOOSE e \in FixedTree : e[2] = s)[1]

RECURSIVE Encode(_)
Encode(syms) ==
    IF syms = <<>> THEN <<>> ELSE CodeWord(Head(syms)) \o Encode(Tail(syms))

RECURSIVE SymbolSeqs(_)
SymbolSeqs(n) ==
    IF n = 0 THEN {<<>>}
    ELSE {Append(s, x) : s \in SymbolSeqs(n - 1), x \in SampleSymbols}

SymbolSeqsUpTo(n) == UNION {SymbolSeqs(k) : k \in 0..n}

\* BFINAL, then BTYPE 01 with its least significant bit first.
FixedHeader(bfinal) == <<bfinal, TRUE, FALSE>>

\* value in width bits, the least significant first: the order of the
\* fields of a block header.
LsbFirst(value, width) == Reverse(ToBits(value, width))

RECURSIVE BytesBits(_)
BytesBits(bytes) ==
    IF bytes = <<>> THEN <<>>
    ELSE LsbFirst(Head(bytes), 8) \o BytesBits(Tail(bytes))

Zeros(n) == [i \in 1..n |-> FALSE]

\* A stored block: BFINAL, BTYPE 00, the padding to the byte boundary, LEN,
\* NLEN and the raw bytes.
StoredBlock(f, len, nlen, bytes) ==
    <<f, FALSE, FALSE>> \o Zeros(5) \o LsbFirst(len, 16) \o LsbFirst(nlen, 16)
      \o BytesBits(bytes)

\* Stored blocks of five bytes 0x41, NLEN the complement of LEN or not.
StoredInputs ==
    {StoredBlock(f, 5, nlen, <<65, 65, 65, 65, 65>>) :
       f \in BOOLEAN, nlen \in {65530, 0}}

\* A dynamic block: BFINAL, BTYPE 10, HLIT = 0, HDIST = 0, HCLEN = 0, the
\* four 3-bit lengths of the code length code (for 16, 17, 18, 0), then the
\* code length stream.
DynamicBlock(f, cl_lengths, stream) ==
    <<f, FALSE, TRUE>> \o Zeros(5) \o Zeros(5) \o Zeros(4)
      \o LsbFirst(cl_lengths[1], 3) \o LsbFirst(cl_lengths[2], 3)
      \o LsbFirst(cl_lengths[3], 3) \o LsbFirst(cl_lengths[4], 3) \o stream

\* Dynamic blocks whose code length stream opens with the repeat code 16
\* (code word 1, then two bits of repeat count): no length precedes it.
DynamicInputs ==
    {DynamicBlock(f, <<1, 0, 0, 1>>, <<TRUE, FALSE, FALSE>>) : f \in BOOLEAN}

Inputs ==
    BitSeqsUpTo(MaxRawBits)
      \cup {FixedHeader(f) \o Encode(s) \o t :
              f \in BOOLEAN, s \in SymbolSeqsUpTo(MaxSymbols),
              t \in BitSeqsUpTo(MaxTailBits)}
      \cup StoredInputs \cup DynamicInputs

(***************************************************************************)
(* Decompressor::new and the caller.                                       *)
(***************************************************************************)
DecompressorNew ==
    /\ header = HeaderNew
    /\ state = StateHeaderBegin
    /\ huffman_codes = None
    /\ output_buf = <<>>

Init ==
    /\ in_stream \in {NewBitReader(b) : b \in Inputs}
    /\ DecompressorNew
    /\ buf = <<>>
    /\ pc = "idle"
    /\ outcome = "none"
    /\ received = <<>>

\* The caller calls decompress: let mut buf = VecDeque::new().
decompress_call ==
    /\ pc = "idle"
    /\ pc' = "running"
    /\ buf' = <<>>
    /\ outcome' = "none"
    /\ UNCHANGED <<in_stream, header, state, huffman_codes, output_buf, received>>

\* panic!(e), unimplemented!() and unreachable!() end the call without a value.
Abort(e) ==
    /\ pc' = "aborted"
    /\ outcome' = e

\* self.state = match res { Ok(state) => state, Err(e) => panic!(e) }
SetStateOrPanic(res) ==
    IF res.ok
    THEN state' = res.val /\ UNCHANGED <<pc, outcome>>
    ELSE state' = state /\ Abort(res.val)

decompress_HeaderBegin ==
    /\ pc = "running"
    /\ state.tag = "HeaderBegin"
    /\ LET res == parse_bfinal(in_stream) IN
         /\ in_stream' = res.in_stream
         /\ SetStateOrPanic(res)
    /\ UNCHANGED <<header, huffman_codes, output_buf, buf, received>>

decompress_BFinal ==
    /\ pc = "running"
    /\ state.tag = "BFinal"
    /\ header' = [header EXCEPT !.bfinal = Some(state.bfinal)]
    /\ LET res == parse_btype(in_stream) IN
         /\ in_stream' = res.in_stream
         /\ SetStateOrPanic(res)
    /\ UNCHANGED <<huffman_codes, output_buf, buf, received>>

\* The BType arm going straight to the symbols, no table selected.
decompress_BType_skips_tables ==
    /\ pc = "running"
    /\ state.tag = "BType"
    /\ header' = [header EXCEPT !.btype = Some(state.btype)]
    /\ state' = StateSymbol(256)
    /\ UNCHANGED <<in_stream, huffman_codes, output_buf, buf, pc, outcome, received>>

decompress_BType ==
    /\ pc = "running"
    /\ state.tag = "BType"
    /\ header' = [header EXCEPT !.btype = Some(state.btype)]
    /\ state' = StateHandlingHuffmanCodes(state.btype)
    /\ UNCHANGED <<in_stream, huffman_codes, output_buf, buf, pc, outcome, received>>

decompress_HandlingNoCompression ==
    /\ pc = "running"
    /\ state.tag = "HandlingHuffmanCodes"
    /\ state.btype = NoCompression
    /\ Abort("unimplemented")
    /\ UNCHANGED <<in_stream, header, state, huffman_codes, output_buf, buf, received>>

decompress_HandlingFixedHuffmanCodes ==
    /\ pc = "running"
    /\ state.tag = "HandlingHuffmanCodes"
    /\ state.btype = CompressedWithFixedHuffmanCodes
    /\ SetStateOrPanic(create_fixed_huffman_codes)
    /\ UNCHANGED <<in_stream, header, huffman_codes, output_buf, buf, received>>

decompress_HandlingDynamicHuffmanCodes ==
    /\ pc = "running"
    /\ state.tag = "HandlingHuffmanCodes"
    /\ state.btype = CompressedWithDynamicHuffmanCodes
    /\ Abort("unimplemented")
    /\ UNCHANGED <<in_stream, header, state, huffman_codes, output_buf, buf, received>>

decompress_HuffmanCodes ==
    /\ pc = "running"
    /\ state.tag = "HuffmanCodes"
    /\ huffman_codes' = Some(state.codes)
    /\ LET res == parse_next_symbol(in_stream, state.codes) IN
         /\ in_stream' = res.in_stream
         /\ SetStateOrPanic(res)
    /\ UNCHANGED <<header, output_buf, buf, received>>

\* The literal arm without its return: the loop goes on to the next symbol.
decompress_SymbolLiteral_drains ==
    /\ pc = "running"
    /\ state.tag = "Symbol"
    /\ state.symbol \in 0..255
    /\ buf' = <<state.symbol>> \o buf
    /\ output_buf' = <<state.symbol>> \o output_buf
    /\ LET res == parse_next_symbol(in_stream, huffman_codes[1]) IN
         /\ in_stream' = res.in_stream
         /\ SetStateOrPanic(res)
    /\ UNCHANGED <<header, huffman_codes, received>>

\* State::Symbol(byte @ 0...255): the literal byte, the next symbol, return buf.
decompress_SymbolLiteral ==
    /\ pc = "running"
    /\ state.tag = "Symbol"
    /\ state.symbol \in 0..255
    /\ buf' = <<state.symbol>> \o buf
    /\ output_buf' = <<state.symbol>> \o output_buf
    /\ LET res == parse_next_symbol(in_stream, huffman_codes[1]) IN
         /\ in_stream' = res.in_stream
         /\ IF res.ok
            THEN /\ state' = res.val
                 /\ pc' = "idle"
                 /\ outcome' = "returned"
                 /\ received' = received \o buf'
            ELSE /\ state' = state
                 /\ Abort(res.val)
                 /\ received' = received
    /\ UNCHANGED <<header, huffman_codes>>

decompress_SymbolEndOfBlock ==
    /\ pc = "running"
    /\ state.tag = "Symbol"
    /\ state.symbol = 256
    /\ Abort("unimplemented")
    /\ UNCHANGED <<in_stream, header, state, huffman_codes, output_buf, buf, received>>

decompress_SymbolLengthCode ==
    /\ pc = "running"
    /\ state.tag = "Symbol"
    /\ state.symbol \in 257..285
    /\ Abort("unimplemented")
    /\ UNCHANGED <<in_stream, header, state, huffman_codes, output_buf, buf, received>>

decompress_SymbolOther ==
    /\ pc = "running"
    /\ state.tag = "Symbol"
    /\ state.symbol \notin 0..285
    /\ Abort("unreachable")
    /\ UNCHANGED <<in_stream, header, state, huffman_codes, output_buf, buf, received>>

Next ==
    \/ decompress_call
    \/ decompress_HeaderBegin
    \/ decompress_BFinal
    \/ decompress_BType
    \/ decompress_HandlingNoCompression
    \/ decompress_HandlingFixedHuffmanCodes
    \/ decompress_HandlingDynamicHuffmanCodes
    \/ decompress_HuffmanCodes
    \/ decompress_SymbolLiteral
    \/ decompress_SymbolEndOfBlock
    \/ decompress_SymbolLengthCode
    \/ decompress_SymbolOther

Spec == Init /\ [][Next]_vars

\* A fresh decoder over a fixed-Huffman header and any bits after it.
InitAllCodes ==
    /\ in_stream \in {NewBitReader(FixedHeader(TRUE) \o b) :
                        b \in BitSeqsUpTo(MaxCodeBits)}
    /\ DecompressorNew
    /\ buf = <<>>
    /\ pc = "idle"
    /\ outcome = "none"
    /\ received = <<>>

\* The decoder over the inputs of Init and over those of InitAllCodes.
SpecAllCodes == (Init \/ InitAllCodes) /\ [][Next]_vars

(***************************************************************************)
(* The block header.                                                       *)
(***************************************************************************)
Bit(b) == IF b THEN 1 ELSE 0

\* BTYPE as a number, the first of the two bits read the least significant.
BTypeValue(bits) == Bit(bits[1]) + 2 * Bit(bits[2])

\* The block kind a BTYPE value below 3 selects.
BTypeSelected(v) ==
    CASE v = 0 -> NoCompression
      [] v = 1 -> CompressedWithFixedHuffmanCodes
      [] v = 2 -> CompressedWithDynamicHuffmanCodes
      [] OTHER -> "reserved"

\* The bits of s after its first n.
Drop(s, n) == SubSeq(s, n + 1, Len(s))

\* C1: from a fresh Decompressor and an input of at least 3 bits, the
\* header step reads exactly one bit, the first, as BFINAL, then exactly
\* the next two as BTYPE, and no bit more before the block kind is
\* selected; BTYPE, first bit read least significant, selects
\* 0 -> NoCompression, 1 -> fixed Huffman, 2 -> dynamic Huffman and
\* 3 -> the reserved-type error.
C1_HeaderBits ==
    [][LET bits == in_stream.bits IN
       /\ (pc = "running" /\ state.tag = "HeaderBegin" /\ Len(bits) >= 3) =>
            /\ in_stream.pos = 0
            /\ in_stream' = [bits |-> Drop(bits, 1), pos |-> 1, eof |-> FALSE]
            /\ state' = StateBFinal(bits[1])
            /\ pc' = "running"
       /\ (pc = "running" /\ state.tag = "BFinal" /\ Len(bits) >= 2) =>
            /\ in_stream.pos = 1
            /\ in_stream' = [bits |-> Drop(bits, 2), pos |-> 3, eof |-> FALSE]
            /\ header'.bfinal = Some(state.bfinal)
            /\ IF BTypeValue(bits) < 3
               THEN /\ state' = StateBType(BTypeSelected(BTypeValue(bits)))
                    /\ pc' = "running"
               ELSE /\ pc' = "aborted"
                    /\ outcome' = BlockTypeReserved
       /\ (pc = "running" /\ state.tag = "BType") =>
            /\ in_stream' = in_stream
            /\ in_stream.pos = 3
            /\ header'.btype = Some(state.btype)
            /\ state' = StateHandlingHuffmanCodes(state.btype)]_vars

\* A header with BTYPE 2 (bits 0 then 1) has selected the dynamic kind.
C1_Witness ==
    /\ state = StateHandlingHuffmanCodes(CompressedWithDynamicHuffmanCodes)
    /\ header = [bfinal |-> Some(TRUE),
                 btype |-> Some(CompressedWithDynamicHuffmanCodes)]
    /\ in_stream.pos = 3

\* C2: whatever BFINAL is, a header whose BTYPE bits are 11 ends the call
\* with the error BlockTypeReserved when they are read, and no byte has
\* reached the caller, the call's buffer or the window by then; the error
\* is raised for nothing else.
C2_ReservedBlockType ==
    [][/\ (/\ pc = "running" /\ state.tag = "BFinal"
           /\ Len(in_stream.bits) >= 2
           /\ in_stream.bits[1] /\ in_stream.bits[2]) =>
            /\ pc' = "aborted"
            /\ outcome' = BlockTypeReserved
            /\ received' = <<>> /\ buf' = <<>> /\ output_buf' = <<>>
       /\ outcome' = BlockTypeReserved =>
            /\ state.tag = "BFinal"
            /\ Len(in_stream.bits) >= 2 /\ BTypeValue(in_stream.bits) = 3
            /\ received' = <<>> /\ buf' = <<>> /\ output_buf' = <<>>]_vars

\* A final block's reserved header has failed the call.
C2_Witness ==
    /\ pc = "aborted"
    /\ outcome = BlockTypeReserved
    /\ header.bfinal = Some(TRUE)
    /\ in_stream.pos = 3

\* C3: a read that finds the bit source exhausted (at BFINAL, inside BTYPE
\* or inside a code word) ends the call with UnexpectedEOF and with no
\* other error kind; and UnexpectedEOF is reported for nothing else.
C3_UnexpectedEOF ==
    /\ in_stream.eof => (pc = "aborted" /\ outcome = UnexpectedEOF)
    /\ outcome = UnexpectedEOF => (in_stream.eof /\ in_stream.bits = <<>>)

\* The source ran out inside the code word that follows a literal.
C3_Witness ==
    /\ in_stream.eof
    /\ outcome = UnexpectedEOF
    /\ state.tag = "Symbol"
    /\ in_stream.pos > 3 + Len(CodeWord(state.symbol))

\* C4: no call of decompress ends by aborting: every call returns bytes or
\* hands the caller an error value.
C4_NoAbort == pc # "aborted"

\* The decoder has read all of an input that is one final fixed-Huffman
\* block of literals and the end-of-block symbol: the literals are the
\* symbols decoded before the end-of-block one it holds.
AtEndOfFinalLiteralBlock ==
    /\ header = [bfinal |-> Some(TRUE),
                 btype |-> Some(CompressedWithFixedHuffmanCodes)]
    /\ state = StateSymbol(256)
    /\ in_stream.bits = <<>>
    /\ in_stream.pos = 3 + Len(Encode(Reverse(output_buf))) + Len(CodeWord(256))

\* C5: on an input that is one fixed-Huffman block with BFINAL = 1 of k
\* literals and the end-of-block symbol, the caller receives exactly those
\* literals in order and the decode finishes: with the whole input read,
\* the caller holds the k literals and no call aborts on the end of block.
C5_FixedLiteralBlock ==
    AtEndOfFinalLiteralBlock =>
        /\ received = Reverse(output_buf)
        /\ pc # "aborted"

\* C6: decoding the end-of-block symbol takes the decoder back to the block
\* header when BFINAL was false and to the terminal Done when it was true.
C6_EndOfBlock ==
    [][(pc = "running" /\ state = StateSymbol(256)) =>
         /\ pc' # "aborted"
         /\ state'.tag = IF header.bfinal = Some(FALSE)
                         THEN "HeaderBegin" ELSE "Done"]_vars

\* The phase of the specification's state machine a State variant is in.
Phase(st) ==
    CASE st.tag \in {"HeaderBegin", "BFinal", "BType"} -> "AwaitingBlockHeader"
      [] st.tag = "HandlingHuffmanCodes" /\ st.btype = NoCompression ->
           "CopyingStoredBytes"
      [] st.tag = "HandlingHuffmanCodes" /\ st.btype # NoCompression ->
           "AwaitingHuffmanTables"
      [] st.tag \in {"HuffmanCodes", "Symbol"} -> "DecodingTokens"

PhaseOrder ==
    {<<"AwaitingBlockHeader", "AwaitingHuffmanTables">>,
     <<"AwaitingBlockHeader", "CopyingStoredBytes">>,
     <<"AwaitingHuffmanTables", "DecodingTokens">>,
     <<"CopyingStoredBytes", "DecodingTokens">>,
     <<"DecodingTokens", "AwaitingBlockHeader">>}

\* C7: the phase changes only along awaiting header -> (awaiting tables |
\* copying stored bytes) -> decoding tokens -> awaiting header; a symbol is
\* held only once both header fields are set and a table is selected; and
\* while tokens are decoded the header is left alone and no bit is read
\* into a header field.
C7_PhaseOrder ==
    [][/\ Phase(state') = Phase(state) \/ <<Phase(state), Phase(state')>> \in PhaseOrder
       /\ state'.tag = "Symbol" =>
            /\ header'.bfinal # None /\ header'.btype # None
            /\ huffman_codes' # None
            /\ in_stream'.pos > 3
       /\ Phase(state) = "DecodingTokens" =>
            /\ header' = header
            /\ state'.tag \notin {"BFinal", "BType"}
       /\ in_stream' # in_stream =>
            (Phase(state) = "DecodingTokens" <=> in_stream.pos >= 3)]_vars

\* A call has returned with the next symbol decoded, the whole chain passed.
C7_Witness ==
    /\ pc = "idle"
    /\ state.tag = "Symbol"
    /\ received # <<>>

\* The code length the fixed code gives a literal/length symbol.
FixedLengthOf(s) ==
    IF s <= 143 THEN 8 ELSE IF s <= 255 THEN 9 ELSE IF s <= 279 THEN 7 ELSE 8

\* The trees the decoder holds for the block.
TablesOfBlock ==
    (IF state.tag = "HuffmanCodes" THEN {state.codes} ELSE {})
      \cup (IF huffman_codes # None THEN {huffman_codes[1]} ELSE {})

\* C8: the table built for a fixed-Huffman block has 288 literal/length
\* entries of lengths 8 (0..143), 9 (144..255), 7 (256..279), 8 (280..287),
\* and the block has a distance table of thirty 5-bit codes.
C8_FixedTables ==
    state.tag = "HuffmanCodes" =>
        /\ Cardinality(state.codes) = 288
        /\ {e[2] : e \in state.codes} = 0..287
        /\ \A e \in state.codes : Len(e[1]) = FixedLengthOf(e[2])
        /\ \E t \in TablesOfBlock :
             Cardinality(t) = 30 /\ \A e \in t : Len(e[1]) = 5

(***************************************************************************)
(* The window.  AfterLiterals is the state the calls on a fixed-Huffman    *)
(* block (BFINAL f) of the bytes lits, all 0x41, then the symbols s and    *)
(* the bits t, lead to when a call has returned each of lits: the first of *)
(* s is decoded, the rest unread.                                          *)
(***************************************************************************)
AfterLiterals(lits, f, s, t) ==
    /\ in_stream = [bits |-> Encode(Tail(s)) \o t,
                    pos |-> 3 + 8 * Len(lits) + Len(CodeWord(s[1])),
                    eof |-> FALSE]
    /\ header = [bfinal |-> Some(f),
                 btype |-> Some(CompressedWithFixedHuffmanCodes)]
    /\ state = StateSymbol(s[1])
    /\ huffman_codes = Some(FixedTree)
    /\ output_buf = lits
    /\ buf = <<65>>
    /\ pc = "idle"
    /\ outcome = "returned"
    /\ received = lits

\* WINDOW_SIZE bytes 0x41.
FullWindow == SubSeq([i \in 1..WINDOW_SIZE |-> 65], 1, WINDOW_SIZE)

InitFullWindow ==
    \E f \in BOOLEAN, s \in SymbolSeqsUpTo(MaxSymbols) \ {<<>>} :
        AfterLiterals(FullWindow, f, s, <<>>)

\* The decoder fresh, or with WINDOW_SIZE bytes behind it.
SpecFullWindow == (Init \/ InitFullWindow) /\ [][Next]_vars

Min(a, b) == IF a <= b THEN a ELSE b

\* The last n elements of s.
LastN(s, n) == SubSeq(s, Len(s) - n + 1, Len(s))

\* C9: between calls output_buf holds at most WINDOW_SIZE bytes, and they
\* are the last min(n, WINDOW_SIZE) of the n bytes emitted so far (the
\* newest at the front).
C9_WindowBounded ==
    pc = "idle" =>
        /\ Len(output_buf) <= WINDOW_SIZE
        /\ Reverse(output_buf)
             = LastN(received, Min(Len(received), WINDOW_SIZE))

\* C10: every literal decoded is handed to the caller once and entered into
\* the window once: the bytes the caller has received and the bytes entered
\* into the window are the same sequence in the same order.
C10_LiteralOnceEach == Reverse(output_buf) = received

(***************************************************************************)
(* Back-references.  The window w has its newest byte first, so the byte   *)
(* d positions behind the output position is w[d].                         *)
(***************************************************************************)
RECURSIVE CopyFrom(_, _, _)
\* w after a copy of len bytes from distance d, one byte at a time.
CopyFrom(w, len, d) ==
    IF len = 0 THEN w ELSE CopyFrom(<<w[d]>> \o w, len - 1, d)

\* C11: a length symbol met with bytes already produced is expanded: the
\* step does not end the call in failure, and for a length in 3..258 and a
\* distance in 1..min(WINDOW_SIZE, bytes produced) it appends exactly that
\* many bytes, each the byte that distance behind when it is appended.
C11_ReferenceExpanded ==
    [][(/\ pc = "running" /\ state.tag = "Symbol"
        /\ state.symbol \in 257..285 /\ output_buf # <<>>) =>
         /\ pc' # "aborted"
         /\ \E len \in 3..258, d \in 1..Min(WINDOW_SIZE, Len(output_buf)) :
              output_buf' = CopyFrom(output_buf, len, d)]_vars

\* C12: a length symbol met before any byte has been produced starts a
\* back-reference whose distance, whatever it is, exceeds the bytes
\* produced: the call fails with InvalidDistance (with UnexpectedEOF when
\* the input ends inside the reference) and no byte is emitted.
C12_InvalidDistance ==
    (/\ pc = "aborted" /\ state.tag = "Symbol"
     /\ state.symbol \in 257..285 /\ output_buf = <<>>) =>
        /\ outcome \in {"InvalidDistance", UnexpectedEOF}
        /\ outcome = UnexpectedEOF => in_stream.eof
        /\ received = <<>> /\ buf = <<>>

(***************************************************************************)
(* Stored and dynamic blocks.                                              *)
(***************************************************************************)
RECURSIVE Value(_)
\* The number whose bits, least significant first, are bits.
Value(bits) ==
    IF bits = <<>> THEN 0 ELSE Bit(Head(bits)) + 2 * Value(Tail(bits))

\* The n bytes that bits, eight to a byte, begin with.
BytesOf(bits, n) == [i \in 1..n |-> Value(SubSeq(bits, 8 * i - 7, 8 * i))]

\* C13: at a stored block whose LEN and NLEN fields are in the input, the
\* decode fails with StoredBlockLengthMismatch, nothing emitted, when NLEN
\* is not the complement of LEN; when it is, the call does not fail and
\* the LEN raw bytes enter the window.
C13_StoredBlock ==
    [][LET body == Drop(in_stream.bits, (8 - (in_stream.pos % 8)) % 8)
           LEN == Value(SubSeq(body, 1, 16))
           NLEN == Value(SubSeq(body, 17, 32))
       IN  (/\ pc = "running"
            /\ state = StateHandlingHuffmanCodes(NoCompression)
            /\ Len(body) >= 32) =>
             IF NLEN # 65535 - LEN
             THEN /\ pc' = "aborted"
                  /\ outcome' = "StoredBlockLengthMismatch"
                  /\ output_buf' = output_buf /\ buf' = buf
                  /\ received' = received
             ELSE /\ pc' # "aborted"
                  /\ Len(body) >= 32 + 8 * LEN =>
                       output_buf'
                         = Reverse(BytesOf(Drop(body, 32), LEN)) \o output_buf]_vars

\* C14: at a dynamic block the table description is read: the step ends
\* the call with InvalidDynamicTableDescription when the code length
\* stream opens with the repeat code 16, so with no length before it (with
\* UnexpectedEOF when the input ends inside the description, and with no
\* other failure), or it leaves the tables built for the block's symbols.
C14_DynamicTables ==
    [][(/\ pc = "running"
        /\ state = StateHandlingHuffmanCodes(CompressedWithDynamicHuffmanCodes)) =>
         /\ \/ /\ pc' = "aborted"
               /\ outcome' \in {"InvalidDynamicTableDescription", UnexpectedEOF}
               /\ outcome' = UnexpectedEOF => in_stream'.eof
            \/ /\ pc' = "running"
               /\ state'.tag = "HuffmanCodes"
         /\ in_stream.bits \in {Drop(b, 3) : b \in DynamicInputs} =>
               /\ pc' = "aborted"
               /\ outcome' = "InvalidDynamicTableDescription"
               /\ output_buf' = output_buf /\ received' = received]_vars

(***************************************************************************)
(* One literal a call.                                                     *)
(***************************************************************************)
\* C16: decoding resumes where it stopped.  A call starts from the saved
\* state untouched; a symbol comes to be held by consuming exactly its code
\* word, the next bits of the source; and a literal held is accounted for
\* once: while it stays the held symbol it is in neither the window nor the
\* caller's bytes, and once it is entered into the window it has been
\* returned to the caller and the symbol after it is the one held.
C16_Resumable ==
    [][/\ pc = "idle" =>
            /\ in_stream' = in_stream /\ state' = state /\ header' = header
            /\ huffman_codes' = huffman_codes /\ output_buf' = output_buf
       /\ (state'.tag = "Symbol" /\ in_stream' # in_stream /\ ~in_stream'.eof) =>
            /\ in_stream.bits = CodeWord(state'.symbol) \o in_stream'.bits
            /\ in_stream'.pos = in_stream.pos + Len(CodeWord(state'.symbol))
       /\ (pc = "running" /\ state.tag = "Symbol") =>
            /\ header' = header /\ huffman_codes' = huffman_codes
            /\ output_buf' # output_buf =>
                 /\ output_buf' = <<state.symbol>> \o output_buf
                 /\ received' = Append(received, state.symbol)
                 /\ in_stream' # in_stream /\ ~in_stream'.eof
            /\ output_buf' = output_buf =>
                 /\ received' = received /\ in_stream' = in_stream]_vars

\* C17: a literal decoded reaches the caller whatever follows it: the step
\* that handles a held literal returns it, also when the read of the next
\* symbol finds the source exhausted, and a failure of that read is left
\* to a later call.
C17_OutputNeverLost ==
    [][(pc = "running" /\ state.tag = "Symbol" /\ state.symbol \in 0..255) =>
         /\ pc' = "idle"
         /\ Len(received') = Len(received) + 1
         /\ received'[Len(received')] = state.symbol]_vars

(***************************************************************************)
(* The symbols of the fixed code.                                          *)
(***************************************************************************)
\* C18: every symbol the decoder comes to hold lies in 0..285, so that no
\* call ends in the catch-all arm of decompress.
C18_SymbolInRange ==
    /\ state.tag = "Symbol" => state.symbol \in 0..285
    /\ outcome # "unreachable"

\* The code word of symbol s in the fixed code as RFC 1951, 3.2.6 lists it.
RfcCodeWord(s) ==
    IF s <= 143 THEN ToBits(48 + s, 8)
    ELSE IF s <= 255 THEN ToBits(400 + (s - 144), 9)
    ELSE IF s <= 279 THEN ToBits(s - 256, 7)
    ELSE ToBits(192 + (s - 280), 8)

IsPrefix(p, s) == Len(p) <= Len(s) /\ SubSeq(s, 1, Len(p)) = p

\* C19: a step that decodes a symbol with the fixed table starts at the
\* root of the tree and never meets a missing branch; when the bits ahead
\* begin with a code word it ends holding that code word's symbol, having
\* consumed exactly the code word, 7, 8 or 9 bits, and no bit after it;
\* otherwise the bits ahead are fewer than 9, all are consumed and the
\* call ends with UnexpectedEOF.
C19_SymbolDecode ==
    [][(/\ pc = "running"
        /\ \/ state.tag = "HuffmanCodes"
           \/ state.tag = "Symbol" /\ state.symbol \in 0..255) =>
         LET bits == in_stream.bits
             tree == IF state.tag = "HuffmanCodes" THEN state.codes
                     ELSE huffman_codes[1]
             hits == {s \in 0..287 : IsPrefix(RfcCodeWord(s), bits)}
         IN  /\ tree = FixedTree
             /\ outcome' # "unreachable"
             /\ IF hits # {}
                THEN \E s \in hits :
                       /\ state' = StateSymbol(s)
                       /\ pc' # "aborted"
                       /\ FixedLengthOf(s) \in {7, 8, 9}
                       /\ in_stream'
                            = [bits |-> Drop(bits, FixedLengthOf(s)),
                               pos |-> in_stream.pos + FixedLengthOf(s),
                               eof |-> FALSE]
                ELSE /\ pc' = "aborted"
                     /\ outcome' = UnexpectedEOF
                     /\ Len(bits) < 9
                     /\ in_stream'
                          = [bits |-> <<>>, pos |-> in_stream.pos + Len(bits),
                             eof |-> TRUE]]_vars

\* The 9-bit code word of 200 decoded, the one bit after it left unread.
C19_Witness ==
    /\ state = StateSymbol(200)
    /\ in_stream = [bits |-> <<TRUE>>, pos |-> 12, eof |-> FALSE]

\* C20: a call that returns returns exactly one byte.  The step that
\* returns is the handling of a held literal, the first of the call: it
\* returns that literal alone, having consumed the whole code word of the
\* symbol after it, which it leaves held for the next call; the call does
\* not go on after a literal, and until then its buffer is empty.
C20_OneBytePerCall ==
    [][/\ (pc = "running" /\ pc' = "idle") =>
            /\ state.tag = "Symbol" /\ state.symbol \in 0..255
            /\ buf = <<>>
            /\ buf' = <<state.symbol>>
            /\ outcome' = "returned"
            /\ received' = Append(received, state.symbol)
            /\ state'.tag = "Symbol"
            /\ ~in_stream'.eof
            /\ in_stream.bits = CodeWord(state'.symbol) \o in_stream'.bits
       /\ (pc = "running" /\ state.tag = "Symbol" /\ state.symbol \in 0..255) =>
            pc' # "running"
       /\ pc' = "running" => buf' = <<>>]_vars

\* A call has returned the one byte 0x41 and the end-of-block symbol that
\* followed it, the last of the input, is held.
C20_Witness ==
    /\ pc = "idle"
    /\ outcome = "returned"
    /\ received = <<65>>
    /\ buf = <<65>>
    /\ state = StateSymbol(256)
    /\ in_stream.bits = <<>>

====
